---------------------------- MODULE Spec2Model ----------------------------
(***************************************************************************)
(* A model of decorators.py: the type_check contract decorator, the retry  *)
(* decorator, the asynchronous result handle and the timeout decorator.    *)
(*                                                                         *)
(* The specifications, one per decorator, share the module:                *)
(*   SpecTypeCheck   one decorated callable and one call of it             *)
(*   SpecRetry       one retry(...) decoration and one call of it          *)
(*   SpecAsync       one asynchronous object, its background threads and   *)
(*                   the callers of get_result()                           *)
(*   SpecTimeout     timeout-wrapped calls on the main thread, one inside  *)
(*                   another, the process's alarm and the passing of time  *)
(*   SpecRetryFair   SpecRetry with the steps of f_retry taken             *)
(***************************************************************************)
EXTENDS Integers, Sequences, FiniteSets, TLC

VARIABLES
    \* ---- type_check -------------------------------------------------
    sig,              \* signature(f): [parameters, return_annotation]
    args,             \* the call's arguments: parameter name -> value
    extra,            \* the call carries an argument no parameter takes
    pc,               \* position of the call inside wrapper
    bound_arguments,  \* sig.bind's result: <<name, ...>> in signature order
    i,                \* loop index of the two for loops of wrapper
    result,           \* what f returned
    invoked,          \* how many times f was invoked in this call
    invokedWith,      \* the arguments f was invoked with
    exc,              \* the exception in flight inside wrapper
    outcome,          \* what the caller of the decorated callable gets
    \* ---- retry ------------------------------------------------------
    given,            \* retry's arguments: [tries, delay, backoff]
    tries,            \* math.floor(tries), as the closure holds it
    rpc,              \* position in retry and in f_retry
    mtries,           \* f_retry's remaining attempts
    mdelay,           \* f_retry's current delay
    rv,               \* what the last invocation of f returned
    rvs,              \* what each invocation of f returned, in order
    waits,            \* the delays slept, in order
    retried,          \* what retry(...) or the call of f_retry gave its caller
    \* ---- asynchronous ----------------------------------------------
    queue,            \* self.queue of the asynchronous object: a Queue's id
    queues,           \* the content of each Queue created
    started,          \* how many times start() was called
    thread,           \* the background threads, one per start()
    handle,           \* the Result objects, one per start()
    caller,           \* the threads that call get_result()
    returned,         \* per handle, the values get_result() has returned
    reads,            \* per handle, how many queue.get() calls completed
    \* ---- timeout ---------------------------------------------------
    tstack,           \* the timeout-wrapped calls in progress, outermost first
    alarm,            \* seconds left on the process's alarm, 0 when none is set
    alarmOwner,       \* depth of the call whose signal.alarm(seconds) set it
    sigHandler,       \* depth of the call whose _handle_timeout is installed
    tcalls,           \* how many outermost calls were made
    exited,           \* how the call that exited last did exit, since the
                      \* outermost call in progress began
    exits,            \* what each outermost call gave its caller, in order
    stray             \* the alarm went off while no wrapped call was running

tcVars == <<sig, args, extra, pc, bound_arguments, i, result, invoked,
            invokedWith, exc, outcome>>

retryVars == <<given, tries, rpc, mtries, mdelay, rv, rvs, waits, retried>>

asyncVars == <<queue, queues, started, thread, handle, caller, returned, reads>>

timeoutVars == <<tstack, alarm, alarmOwner, sigHandler, tcalls, exited, exits, stray>>

vars == <<sig, args, extra, pc, bound_arguments, i, result, invoked,
          invokedWith, exc, outcome,
          given, tries, rpc, mtries, mdelay, rv, rvs, waits, retried,
          queue, queues, started, thread, handle, caller, returned, reads,
          tstack, alarm, alarmOwner, sigHandler, tcalls, exited, exits, stray>>

-----------------------------------------------------------------------------
(* Bounds of the model.                                                    *)

\* parameters of the decorated callable besides self/cls
MaxParams == 2
\* entries of a list return annotation, and elements of a returned tuple
MaxSlots == 2
\* the largest number of tries a retry decoration is given
MaxTries == 3
\* calls of start() on the asynchronous object
MaxStarts == 2
\* calls of get_result() by one caller
MaxGets == 2
\* timeout-wrapped calls in progress at once, one inside the other
MaxDepth == 2
\* the largest deadline, in seconds, a timeout decoration is given
MaxSeconds == 2
\* seconds an outermost wrapped call is followed for
MaxDur == 3
\* outermost timeout-wrapped calls, one after the other
MaxCalls == 2

-----------------------------------------------------------------------------
(* The runtime's classes: identity, __name__ and __mro__.                  *)
(* A2 is a class named "A" that derives from B, which derives from A: two  *)
(* classes of one chain carry the same __name__.                           *)

NoClass == "<none>"

Classes == {"object", "type", "_empty", "int", "bool", "A", "B", "A2"}

NameOf(c) == IF c = "A2" THEN "A" ELSE c

ParentOf(c) ==
    CASE c = "bool" -> "int"
      [] c = "B"    -> "A"
      [] c = "A2"   -> "B"
      [] c = "object" -> NoClass
      [] OTHER      -> "object"

RECURSIVE Mro(_)
Mro(c) == IF c = NoClass THEN <<>> ELSE <<c>> \o Mro(ParentOf(c))

\* A value: its runtime type and its identity.  A class object is a value of
\* type "type" whose identity is the class.
Instance(c) == [type |-> c, id |-> "obj", items |-> <<>>]
ClassObject(c) == [type |-> "type", id |-> c, items |-> <<>>]
NoValue == [type |-> NoClass, id |-> "none", items |-> <<>>]
\* a tuple of values: what a callable with several return values returns
TupleOf(s) == [type |-> "tuple", id |-> "obj", items |-> s]

\* type(v).__mro__
TypeMro(v) == Mro(v.type)
\* v.__mro__, for a class object v
ClassMro(v) == Mro(v.id)

\* isinstance(v, c)
IsInstance(v, c) == \E k \in 1..Len(TypeMro(v)) : TypeMro(v)[k] = c

\* v[k] of Python, k counted from 0: the element, or the exception raised
Subscriptable(v) == v.type = "tuple"

-----------------------------------------------------------------------------
(* Annotations.  kind: "empty" (inspect's _empty), "type" (a class, t),    *)
(* "str" (a string literal, t) or "list" (a list of annotations, l).       *)

Empty == [kind |-> "empty", t |-> "_empty", l |-> <<>>]
TypeAnn(c) == [kind |-> "type", t |-> c, l |-> <<>>]
StrAnn(s) == [kind |-> "str", t |-> s, l |-> <<>>]
ListAnn(s) == [kind |-> "list", t |-> "", l |-> s]

-----------------------------------------------------------------------------
(* Exceptions.  origin and arg stand for the exception's value: where it   *)
(* was created and the parameter or return slot its message names.  tb is  *)
(* its traceback, outermost frame first.                                   *)

StringLiteralType == "StringLiteralAsAnnotationTypeException"

NoExc == [type |-> "", origin |-> "", arg |-> "", tb |-> <<>>]

NewExc(type, origin, arg, frames) ==
    [type |-> type, origin |-> origin, arg |-> arg, tb |-> frames]

\* subclasses of Exception; KeyboardInterrupt derives from BaseException only
IsException(e) == e.type # "KeyboardInterrupt"

\* The type of what `raise StringLiteralAsAnnotationTypeException(*ctor_args)`
\* raises: __init__ takes function_name and argument_name, and a call with
\* another number of arguments raises TypeError instead of building one.
StringLiteralAsAnnotationTypeException(ctor_args) ==
    IF Len(ctor_args) = 2 THEN StringLiteralType ELSE "TypeError"

\* the frames of the decorator on the stack while wrapper runs
WrapperFrames == <<"wrapper_ignore_exctb", "wrapper">>

\* the slot names of the messages
SlotName(k) == CASE k = 0 -> "return_value[0]"
                 [] k = 1 -> "return_value[1]"
                 [] k = 2 -> "return_value[2]"
                 [] OTHER -> "return_value[3]"

-----------------------------------------------------------------------------
(* Signatures and bound arguments.                                         *)

\* sig.parameters: a sequence of [name, annotation, hasDefault, default]
HasParameter(parameters, name) ==
    \E k \in 1..Len(parameters) : parameters[k].name = name

Parameter(parameters, name) ==
    parameters[CHOOSE k \in 1..Len(parameters) : parameters[k].name = name]

\* bound_arguments.arguments: a sequence of [name, value], signature order
Argument(bound, name) ==
    bound[CHOOSE k \in 1..Len(bound) : bound[k].name = name].value

\* the first class of mro whose __name__ is name (the for ... else loops)
RECURSIVE FirstNamed(_, _)
FirstNamed(mro, name) ==
    IF mro = <<>> THEN NoClass
    ELSE IF NameOf(Head(mro)) = name THEN Head(mro)
    ELSE FirstNamed(Tail(mro), name)

\* Signature.bind: the arguments the caller supplied, in signature order, or
\* failure when an argument matches no parameter or a parameter without a
\* default is left out.
Bindable(parameters, a, x) ==
    /\ ~x
    /\ \A k \in 1..Len(parameters) :
          parameters[k].hasDefault \/ parameters[k].name \in DOMAIN a

\* a variant of the binding that also fills in the defaults of the parameters
\* left out, as BoundArguments.apply_defaults would
RECURSIVE BindFromApplyDefaults(_, _)
BindFromApplyDefaults(parameters, a) ==
    IF parameters = <<>> THEN <<>>
    ELSE IF Head(parameters).name \in DOMAIN a
         THEN <<[name |-> Head(parameters).name,
                 value |-> a[Head(parameters).name]]>>
              \o BindFromApplyDefaults(Tail(parameters), a)
         ELSE IF Head(parameters).hasDefault
         THEN <<[name |-> Head(parameters).name,
                 value |-> Head(parameters).default]>>
              \o BindFromApplyDefaults(Tail(parameters), a)
         ELSE BindFromApplyDefaults(Tail(parameters), a)

RECURSIVE BindFrom(_, _)
BindFrom(parameters, a) ==
    IF parameters = <<>> THEN <<>>
    ELSE IF Head(parameters).name \in DOMAIN a
         THEN <<[name |-> Head(parameters).name,
                 value |-> a[Head(parameters).name]]>>
              \o BindFrom(Tail(parameters), a)
         ELSE BindFrom(Tail(parameters), a)

-----------------------------------------------------------------------------
(* check_parameter_types and check_return_type: "ok", or the type of the   *)
(* exception raised.                                                       *)

\* a variant that omits the isinstance test on the argument
check_parameter_types_unchecked(arg_name, arg_value, parameters, bound) ==
    "ok"

check_parameter_types(arg_name, arg_value, parameters, bound) ==
    LET ann == Parameter(parameters, arg_name).annotation
        resolved ==
            IF ann.kind = "str"
            THEN IF HasParameter(parameters, "self")
                 THEN FirstNamed(TypeMro(Argument(bound, "self")), ann.t)
                 ELSE IF HasParameter(parameters, "cls")
                 THEN FirstNamed(TypeMro(Argument(bound, "cls")), ann.t)
                 ELSE NoClass
            ELSE ann.t
    IN  IF resolved = NoClass
        THEN StringLiteralAsAnnotationTypeException(<<>>)
        ELSE IF ~IsInstance(arg_value, resolved) THEN "TypeError" ELSE "ok"

\* a variant that omits the isinstance test on the result
check_return_type_unchecked(res, ra, parameters, bound) ==
    "ok"

check_return_type(res, ra, parameters, bound) ==
    IF ra.kind = "empty" THEN "ok"
    ELSE LET resolved ==
                 IF ra.kind = "str"
                 THEN IF HasParameter(parameters, "self")
                      THEN FirstNamed(TypeMro(Argument(bound, "self")), ra.t)
                      ELSE IF HasParameter(parameters, "cls")
                      THEN FirstNamed(ClassMro(Argument(bound, "cls")), ra.t)
                      ELSE NoClass
                 ELSE ra.t
         IN  IF resolved = NoClass
             THEN StringLiteralAsAnnotationTypeException(<<>>)
             ELSE IF ~IsInstance(res, resolved) THEN "TypeError" ELSE "ok"

-----------------------------------------------------------------------------
(* The decorated callables and the calls the model draws.                  *)

ParamNames == <<"a", "b", "c", "d">>

\* annotations a parameter is declared with
ParamAnns == {Empty, TypeAnn("int"), StrAnn("A"), StrAnn("Nope")}

\* annotations of a single return value
SlotAnns == {TypeAnn("int"), StrAnn("A"), StrAnn("Nope")}

\* annotations of the entries of a list return annotation
ListSlotAnns == {TypeAnn("int"), StrAnn("A")}

\* the values a caller passes and a callable returns
ArgValues == {Instance("bool"), Instance("B")}

\* the values passed as self and as cls
GoverningValues(name) ==
    IF name = "self" THEN {Instance("A2"), Instance("B")}
    ELSE {ClassObject("A2"), ClassObject("B")}

SeqsUpTo(S, n) == UNION {[1..k -> S] : k \in 0..n}

\* the parameters besides self/cls: up to MaxParams of them, the last one
\* with or without a default, which is any value whatever the annotation
PlainParameters ==
    {[k \in 1..Len(anns) |->
         [name |-> ParamNames[k], annotation |-> anns[k],
          hasDefault |-> d # NoValue /\ k = Len(anns),
          default |-> IF k = Len(anns) THEN d ELSE NoValue]] :
        <<anns, d>> \in
            {t \in SeqsUpTo(ParamAnns, MaxParams) \X ({NoValue} \cup ArgValues) :
                 t[2] # NoValue => Len(t[1]) > 0}}

GoverningParameter(name) ==
    [name |-> name, annotation |-> Empty, hasDefault |-> FALSE, default |-> NoValue]

ParameterLists ==
    PlainParameters
    \cup {<<GoverningParameter(g)>> \o ps : g \in {"self", "cls"}, ps \in PlainParameters}

ReturnAnns ==
    {Empty} \cup SlotAnns
    \cup {ListAnn(s) : s \in SeqsUpTo(ListSlotAnns, MaxSlots) \ {<<>>}}

Signatures ==
    [parameters : ParameterLists, return_annotation : ReturnAnns]

\* the values a parameter may be given
ValuesFor(name) ==
    IF name \in {"self", "cls"} THEN GoverningValues(name) ELSE ArgValues

\* the calls of a callable with these parameters: positional arguments for
\* self/cls and for some of the parameters that follow, in order
CallArgs(parameters) ==
    LET names(m) == {parameters[k].name : k \in 1..m}
        least == IF parameters # <<>> /\ parameters[1].name \in {"self", "cls"}
                 THEN 1 ELSE 0
    IN  UNION {{a \in [names(m) -> ArgValues \cup GoverningValues("self")
                                            \cup GoverningValues("cls")] :
                   \A n \in names(m) : a[n] \in ValuesFor(n)} :
               m \in least..Len(parameters)}

\* what the wrapped callable does when invoked: return a value or raise
ReturnValues ==
    ArgValues \cup {TupleOf(s) : s \in SeqsUpTo(ArgValues, MaxSlots)}

CalleeExceptions ==
    {NewExc(t, "callee", "", WrapperFrames \o <<"f">>) :
        t \in {"TypeError", StringLiteralType, "KeyboardInterrupt"}}

-----------------------------------------------------------------------------
(* type_check.wrapper, run under ignore_decorators_traceback.              *)

NoOutcome == [kind |-> "none", value |-> NoValue, exc |-> NoExc]

\* no callable is decorated with type_check
IdleTypeCheck ==
    /\ sig = [parameters |-> <<>>, return_annotation |-> Empty]
    /\ args = <<>>
    /\ extra = FALSE
    /\ pc = "off"
    /\ bound_arguments = <<>>
    /\ i = 0
    /\ result = NoValue
    /\ invoked = 0
    /\ invokedWith = <<>>
    /\ exc = NoExc
    /\ outcome = NoOutcome

DecoratedTypeCheck ==
    /\ sig \in Signatures
    /\ args = <<>>
    /\ extra = FALSE
    /\ pc = "idle"
    /\ bound_arguments = <<>>
    /\ i = 0
    /\ result = NoValue
    /\ invoked = 0
    /\ invokedWith = <<>>
    /\ exc = NoExc
    /\ outcome = NoOutcome

\* the caller calls the decorated callable
Call ==
    /\ pc = "idle"
    /\ \E a \in CallArgs(sig.parameters), x \in BOOLEAN :
          \* one positional argument too many comes after all the others
          /\ x => \A k \in 1..Len(sig.parameters) : sig.parameters[k].name \in DOMAIN a
          /\ args' = a
          /\ extra' = x
    /\ pc' = "binding"
    /\ UNCHANGED <<sig, bound_arguments, i, result, invoked, invokedWith, exc, outcome>>
    /\ UNCHANGED <<retryVars, asyncVars, timeoutVars>>

\* sig = signature(f); bound_arguments = sig.bind(*args, **kwargs)
Bind ==
    /\ pc = "binding"
    /\ IF Bindable(sig.parameters, args, extra)
       THEN /\ bound_arguments' = BindFrom(sig.parameters, args)
            /\ i' = 1
            /\ pc' = "validating"
            /\ exc' = exc
       ELSE /\ exc' = NewExc("TypeError", "bind", "", WrapperFrames \o <<"bind">>)
            /\ pc' = "handler"
            /\ UNCHANGED <<bound_arguments, i>>
    /\ UNCHANGED <<sig, args, extra, result, invoked, invokedWith, outcome>>
    /\ UNCHANGED <<retryVars, asyncVars, timeoutVars>>

\* one round of the loop over bound_arguments.arguments
CheckParameter ==
    /\ pc = "validating"
    /\ i <= Len(bound_arguments)
    /\ LET arg_name == bound_arguments[i].name
           arg_value == bound_arguments[i].value
           raised == IF arg_name \in {"self", "cls"} THEN "ok"
                     ELSE check_parameter_types(arg_name, arg_value,
                                                sig.parameters, bound_arguments)
       IN  CASE raised = "ok" ->
                  /\ i' = i + 1
                  /\ UNCHANGED <<pc, exc>>
             [] raised = "TypeError" ->
                  /\ exc' = NewExc("TypeError", "parameter", arg_name, WrapperFrames)
                  /\ pc' = "handler"
                  /\ i' = i
             [] OTHER ->
                  /\ exc' = NewExc(StringLiteralAsAnnotationTypeException(<<"f", arg_name>>),
                                   "parameter", arg_name, WrapperFrames)
                  /\ pc' = "handler"
                  /\ i' = i
    /\ UNCHANGED <<sig, args, extra, bound_arguments, result, invoked, invokedWith, outcome>>
    /\ UNCHANGED <<retryVars, asyncVars, timeoutVars>>

\* result = f(*args, **kwargs)
Invoke ==
    /\ pc = "validating"
    /\ i > Len(bound_arguments)
    /\ invoked' = invoked + 1
    /\ invokedWith' = args
    /\ \/ \E v \in ReturnValues :
             /\ result' = v
             /\ pc' = "validatingReturn"
             /\ i' = 0
             /\ exc' = exc
       \/ \E e \in CalleeExceptions :
             /\ exc' = e
             /\ pc' = "handler"
             /\ UNCHANGED <<result, i>>
    /\ UNCHANGED <<sig, args, extra, bound_arguments, outcome>>
    /\ UNCHANGED <<retryVars, asyncVars, timeoutVars>>

\* the checks of the return value: one entry of a list annotation, or the
\* single annotation, or none
CheckReturn ==
    /\ pc = "validatingReturn"
    /\ LET ra == sig.return_annotation
       IN  CASE ra.kind = "empty" ->
                  /\ pc' = "returning"
                  /\ UNCHANGED <<i, exc>>
             [] ra.kind = "list" /\ i >= Len(ra.l) ->
                  /\ pc' = "returning"
                  /\ UNCHANGED <<i, exc>>
             [] ra.kind = "list" /\ i < Len(ra.l) ->
                  IF ~Subscriptable(result)
                  THEN \* result[i] raises TypeError inside the try
                       /\ exc' = NewExc("TypeError", "return", SlotName(i), WrapperFrames)
                       /\ pc' = "handler"
                       /\ i' = i
                  ELSE IF i >= Len(result.items)
                  THEN /\ exc' = NewExc("IndexError", "index", "", WrapperFrames)
                       /\ pc' = "handler"
                       /\ i' = i
                  ELSE LET raised == check_return_type(result.items[i + 1], ra.l[i + 1],
                                                       sig.parameters, bound_arguments)
                       IN  CASE raised = "ok" ->
                                  /\ i' = i + 1
                                  /\ UNCHANGED <<pc, exc>>
                             [] raised = "TypeError" ->
                                  /\ exc' = NewExc("TypeError", "return", SlotName(i),
                                                   WrapperFrames)
                                  /\ pc' = "handler"
                                  /\ i' = i
                             [] OTHER ->
                                  /\ exc' = NewExc(StringLiteralAsAnnotationTypeException(
                                                       <<"f", SlotName(i)>>),
                                                   "return", SlotName(i), WrapperFrames)
                                  /\ pc' = "handler"
                                  /\ i' = i
             [] OTHER ->
                  LET raised == check_return_type(result, ra, sig.parameters,
                                                  bound_arguments)
                  IN  CASE raised = "ok" ->
                             /\ pc' = "returning"
                             /\ UNCHANGED <<i, exc>>
                        [] raised = "TypeError" ->
                             /\ exc' = NewExc("TypeError", "return", "return_value",
                                              WrapperFrames)
                             /\ pc' = "handler"
                             /\ i' = i
                        [] OTHER ->
                             /\ exc' = NewExc(StringLiteralAsAnnotationTypeException(
                                                  <<"f", "return_value">>),
                                              "return", "return_value", WrapperFrames)
                             /\ pc' = "handler"
                             /\ i' = i
    /\ UNCHANGED <<sig, args, extra, bound_arguments, result, invoked, invokedWith, outcome>>
    /\ UNCHANGED <<retryVars, asyncVars, timeoutVars>>

\* a variant of Return that falls off the end of wrapper: the caller gets None
ReturnNothing ==
    /\ pc = "returning"
    /\ outcome' = [kind |-> "return", value |-> NoValue, exc |-> NoExc]
    /\ pc' = "done"
    /\ UNCHANGED <<sig, args, extra, bound_arguments, i, result, invoked, invokedWith, exc>>
    /\ UNCHANGED <<retryVars, asyncVars, timeoutVars>>

\* return result
Return ==
    /\ pc = "returning"
    /\ outcome' = [kind |-> "return", value |-> result, exc |-> NoExc]
    /\ pc' = "done"
    /\ UNCHANGED <<sig, args, extra, bound_arguments, i, result, invoked, invokedWith, exc>>
    /\ UNCHANGED <<retryVars, asyncVars, timeoutVars>>

\* exc_traceback.tb_next, twice, each guarded by the try: a traceback that
\* is None has no tb_next and keeps the value it had
TrimTraceback(tb) ==
    IF tb = <<>> THEN tb
    ELSE IF Tail(tb) = <<>> THEN <<>>
    ELSE Tail(Tail(tb))

\* a variant of Reraise that raises a new exception of the caught type
\* (raise exc_type) instead of the caught one
ReraiseFresh ==
    /\ pc = "handler"
    /\ outcome' = [kind |-> "raise", value |-> NoValue,
                   exc |-> IF IsException(exc)
                           THEN NewExc(exc.type, "wrapper_ignore_exctb", "",
                                       <<"wrapper_ignore_exctb">>)
                           ELSE exc]
    /\ pc' = "done"
    /\ UNCHANGED <<sig, args, extra, bound_arguments, i, result, invoked, invokedWith, exc>>
    /\ UNCHANGED <<retryVars, asyncVars, timeoutVars>>

\* wrapper_ignore_exctb: an Exception is raised again with its traceback cut,
\* anything else passes through
Reraise ==
    /\ pc = "handler"
    /\ outcome' = [kind |-> "raise", value |-> NoValue,
                   exc |-> IF IsException(exc)
                           THEN [exc EXCEPT !.tb = <<"wrapper_ignore_exctb">>
                                                   \o TrimTraceback(exc.tb)]
                           ELSE exc]
    /\ pc' = "done"
    /\ UNCHANGED <<sig, args, extra, bound_arguments, i, result, invoked, invokedWith, exc>>
    /\ UNCHANGED <<retryVars, asyncVars, timeoutVars>>

-----------------------------------------------------------------------------
(* asynchronous: start() launches func on a thread that puts what func     *)
(* returns on self.queue; the Result it returns polls that thread and      *)
(* takes the value from the queue it was built with.                       *)

Callers == {"c1", "c2"}

\* what func returns
AsyncValues == {"v1", "v2"}

Ids == 1..MaxStarts

NoThread == [pc |-> "none", q |-> 0, ret |-> ""]
NoHandle == [queue |-> 0, thread |-> 0, hasResult |-> FALSE, result |-> ""]
IdleCaller == [pc |-> "idle", h |-> 0, got |-> "", gets |-> 0, last |-> ""]

\* thread.is_alive()
IsAlive(t) == thread[t].pc \in {"load", "run"}

\* Result.is_done
is_done(h) == ~IsAlive(handle[h].thread)

\* no asynchronous object exists
IdleAsync ==
    /\ queue = 0
    /\ queues = [n \in Ids |-> <<>>]
    /\ started = 0
    /\ thread = [n \in Ids |-> NoThread]
    /\ handle = [n \in Ids |-> NoHandle]
    /\ caller = [c \in Callers |-> IdleCaller]
    /\ returned = [n \in Ids |-> {}]
    /\ reads = [n \in Ids |-> 0]

\* start(): self.queue = Queue(); the thread is started; the Result is built
\* from self.queue and the thread
Start ==
    /\ started < MaxStarts
    /\ LET n == started + 1
       IN  /\ started' = n
           /\ queue' = n
           /\ thread' = [thread EXCEPT ![n] = [pc |-> "load", q |-> 0, ret |-> ""]]
           /\ handle' = [handle EXCEPT ![n] = [queue |-> n, thread |-> n,
                                               hasResult |-> FALSE, result |-> ""]]
    /\ UNCHANGED <<queues, caller, returned, reads>>
    /\ UNCHANGED <<tcVars, retryVars, timeoutVars>>

\* threaded: self.queue.put is looked up before func is called
ThreadLoadQueue(t) ==
    /\ thread[t].pc = "load"
    /\ thread' = [thread EXCEPT ![t].q = queue, ![t].pc = "run"]
    /\ UNCHANGED <<queue, queues, started, handle, caller, returned, reads>>
    /\ UNCHANGED <<tcVars, retryVars, timeoutVars>>

\* threaded: func returns and its value is put on the queue looked up, or
\* func raises and the thread ends with nothing put
ThreadRun(t) ==
    /\ thread[t].pc = "run"
    /\ \/ \E v \in AsyncValues :
             /\ thread' = [thread EXCEPT ![t].ret = v, ![t].pc = "finished"]
             /\ queues' = [queues EXCEPT ![thread[t].q] = Append(@, v)]
       \/ /\ thread' = [thread EXCEPT ![t].pc = "raised"]
          /\ queues' = queues
    /\ UNCHANGED <<queue, started, handle, caller, returned, reads>>
    /\ UNCHANGED <<tcVars, retryVars, timeoutVars>>

\* get_result(), to its first test: NotYetDoneException unless is_done()
GetResult(c, h) ==
    /\ caller[c].pc = "idle"
    /\ caller[c].gets < MaxGets
    /\ h \in 1..started
    /\ IF ~is_done(h)
       THEN caller' = [caller EXCEPT ![c].gets = @ + 1, ![c].h = h,
                                     ![c].last = "NotYetDoneException"]
       ELSE caller' = [caller EXCEPT ![c].gets = @ + 1, ![c].h = h,
                                     ![c].pc = "hasattr", ![c].last = ""]
    /\ UNCHANGED <<queue, queues, started, thread, handle, returned, reads>>
    /\ UNCHANGED <<tcVars, retryVars, timeoutVars>>

\* if not hasattr(self, 'result')
TestResult(c) ==
    /\ caller[c].pc = "hasattr"
    /\ caller' = [caller EXCEPT ![c].pc =
                     IF handle[caller[c].h].hasResult THEN "return" ELSE "get"]
    /\ UNCHANGED <<queue, queues, started, thread, handle, returned, reads>>
    /\ UNCHANGED <<tcVars, retryVars, timeoutVars>>

\* self.queue.get(): blocks while the queue is empty
QueueGet(c) ==
    /\ caller[c].pc = "get"
    /\ LET q == handle[caller[c].h].queue
       IN  /\ queues[q] # <<>>
           /\ caller' = [caller EXCEPT ![c].got = Head(queues[q]), ![c].pc = "store"]
           /\ queues' = [queues EXCEPT ![q] = Tail(@)]
    /\ reads' = [reads EXCEPT ![caller[c].h] = @ + 1]
    /\ UNCHANGED <<queue, started, thread, handle, returned>>
    /\ UNCHANGED <<tcVars, retryVars, timeoutVars>>

\* self.result = <what get() returned>
StoreResult(c) ==
    /\ caller[c].pc = "store"
    /\ handle' = [handle EXCEPT ![caller[c].h].hasResult = TRUE,
                                ![caller[c].h].result = caller[c].got]
    /\ caller' = [caller EXCEPT ![c].pc = "return", ![c].got = ""]
    /\ UNCHANGED <<queue, queues, started, thread, returned, reads>>
    /\ UNCHANGED <<tcVars, retryVars, timeoutVars>>

\* return self.result
ReturnResult(c) ==
    /\ caller[c].pc = "return"
    /\ caller' = [caller EXCEPT ![c].pc = "idle",
                                ![c].last = handle[caller[c].h].result]
    /\ returned' = [returned EXCEPT ![caller[c].h] = @ \cup {handle[caller[c].h].result}]
    /\ UNCHANGED <<queue, queues, started, thread, handle, reads>>
    /\ UNCHANGED <<tcVars, retryVars, timeoutVars>>

NextAsync ==
    \/ Start
    \/ \E t \in Ids : ThreadLoadQueue(t)
    \/ \E t \in Ids : ThreadRun(t)
    \/ \E c \in Callers, h \in Ids : GetResult(c, h)
    \/ \E c \in Callers : TestResult(c)
    \/ \E c \in Callers : QueueGet(c)
    \/ \E c \in Callers : StoreResult(c)
    \/ \E c \in Callers : ReturnResult(c)

-----------------------------------------------------------------------------
(* timeout(seconds): wrapper installs _handle_timeout for SIGALRM, sets    *)
(* the process's alarm, runs func inside try and sets the alarm to 0 in    *)
(* finally. Time passes in whole seconds between any two steps; when the   *)
(* alarm runs out the installed handler raises TimeoutError on the main    *)
(* thread, wherever it is executing. A wrapped callable may itself make a  *)
(* timeout-wrapped call. The alarm is never taken to run out between       *)
(* signal.alarm(seconds) and the entry of try.                             *)

\* the seconds a timeout decoration is given
TimeoutSeconds == 0..MaxSeconds

\* one call of wrapper: where it is, what func did, the exception in flight
NewFrame(s) ==
    [seconds |-> s, pc |-> "install", done |-> "", doneAt |-> 0, exn |-> "",
     elapsed |-> 0, armed |-> FALSE, fired |-> FALSE, nested |-> FALSE]

NoExit ==
    [depth |-> 0, kind |-> "", seconds |-> 0, done |-> "", doneAt |-> 0,
     elapsed |-> 0, armed |-> FALSE, fired |-> FALSE, nested |-> FALSE]

\* what a call gives its caller
ExitOf(fr, d) ==
    [depth |-> d, kind |-> IF fr.exn = "" THEN "return" ELSE fr.exn,
     seconds |-> fr.seconds, done |-> fr.done, doneAt |-> fr.doneAt,
     elapsed |-> fr.elapsed, armed |-> fr.armed, fired |-> fr.fired,
     nested |-> fr.nested]

\* no timeout-wrapped call was made yet
IdleTimeout ==
    /\ tstack = <<>>
    /\ alarm = 0
    /\ alarmOwner = 0
    /\ sigHandler = 0
    /\ tcalls = 0
    /\ exited = NoExit
    /\ exits = <<>>
    /\ stray = FALSE

Depth == Len(tstack)

\* the program calls a timeout-wrapped callable
CallTimeout ==
    /\ tstack = <<>>
    /\ tcalls < MaxCalls
    /\ \E s \in TimeoutSeconds : tstack' = <<NewFrame(s)>>
    /\ tcalls' = tcalls + 1
    /\ exited' = NoExit
    /\ UNCHANGED <<alarm, alarmOwner, sigHandler, exits, stray>>
    /\ UNCHANGED <<tcVars, retryVars, asyncVars>>

\* func, running, calls a timeout-wrapped callable
NestedCall ==
    /\ Depth \in 1..(MaxDepth - 1)
    /\ tstack[Depth].pc = "try"
    /\ ~tstack[Depth].nested
    /\ \E s \in TimeoutSeconds : tstack' = Append(tstack, NewFrame(s))
    /\ UNCHANGED <<alarm, alarmOwner, sigHandler, tcalls, exited, exits, stray>>
    /\ UNCHANGED <<tcVars, retryVars, asyncVars>>

\* signal.signal(signal.SIGALRM, _handle_timeout)
InstallHandler ==
    /\ Depth > 0
    /\ tstack[Depth].pc = "install"
    /\ sigHandler' = Depth
    /\ tstack' = [tstack EXCEPT ![Depth].pc = "arm"]
    /\ UNCHANGED <<alarm, alarmOwner, tcalls, exited, exits, stray>>
    /\ UNCHANGED <<tcVars, retryVars, asyncVars>>

\* a variant of Arm that keeps a deadline already pending when it is earlier
ArmKeepsEarlier ==
    /\ Depth > 0
    /\ tstack[Depth].pc = "arm"
    /\ alarm' = IF alarm > 0 /\ alarm < tstack[Depth].seconds
                THEN alarm ELSE tstack[Depth].seconds
    /\ alarmOwner' = IF tstack[Depth].seconds > 0 THEN Depth ELSE 0
    /\ tstack' = [tstack EXCEPT ![Depth].pc = "try", ![Depth].armed = TRUE]
    /\ UNCHANGED <<sigHandler, tcalls, exited, exits, stray>>
    /\ UNCHANGED <<tcVars, retryVars, asyncVars>>

\* signal.alarm(seconds), and try is entered: func starts
Arm ==
    /\ Depth > 0
    /\ tstack[Depth].pc = "arm"
    /\ alarm' = tstack[Depth].seconds
    /\ alarmOwner' = IF tstack[Depth].seconds > 0 THEN Depth ELSE 0
    /\ tstack' = [tstack EXCEPT ![Depth].pc = "try", ![Depth].armed = TRUE]
    /\ UNCHANGED <<sigHandler, tcalls, exited, exits, stray>>
    /\ UNCHANGED <<tcVars, retryVars, asyncVars>>

\* result = func(*args, **kwargs): func returns
CalleeReturn ==
    /\ Depth > 0
    /\ tstack[Depth].pc = "try"
    /\ tstack' = [tstack EXCEPT ![Depth].pc = "finally",
                                ![Depth].done = "returned",
                                ![Depth].doneAt = tstack[Depth].elapsed]
    /\ UNCHANGED <<alarm, alarmOwner, sigHandler, tcalls, exited, exits, stray>>
    /\ UNCHANGED <<tcVars, retryVars, asyncVars>>

\* func raises an exception of its own
CalleeRaise ==
    /\ Depth > 0
    /\ tstack[Depth].pc = "try"
    /\ tstack' = [tstack EXCEPT ![Depth].pc = "finally",
                                ![Depth].done = "raised",
                                ![Depth].doneAt = tstack[Depth].elapsed,
                                ![Depth].exn = "ValueError"]
    /\ UNCHANGED <<alarm, alarmOwner, sigHandler, tcalls, exited, exits, stray>>
    /\ UNCHANGED <<tcVars, retryVars, asyncVars>>

\* _handle_timeout raises TimeoutError in the call that is executing: inside
\* try it takes the call to finally, before try it leaves wrapper at once
Interrupted(fr) ==
    [fr EXCEPT !.exn = "TimeoutError",
               !.pc = IF fr.pc \in {"install", "arm", "exit"} THEN "exit"
                      ELSE "finally"]

\* a second passes; an alarm that runs out delivers SIGALRM
Tick ==
    /\ \/ alarm > 0
       \/ Depth > 0 /\ tstack[1].armed /\ tstack[1].elapsed < MaxDur
    /\ LET aged == [d \in 1..Depth |->
                       IF tstack[d].armed
                       THEN [tstack[d] EXCEPT !.elapsed = @ + 1]
                       ELSE tstack[d]]
           marked == [d \in 1..Depth |->
                         IF d = alarmOwner
                         THEN [aged[d] EXCEPT !.fired = TRUE]
                         ELSE aged[d]]
       IN  IF alarm = 1
           THEN /\ alarm' = 0
                /\ alarmOwner' = 0
                /\ IF Depth = 0
                   THEN /\ stray' = TRUE
                        /\ tstack' = tstack
                   ELSE /\ stray' = stray
                        /\ tstack' = [marked EXCEPT ![Depth] = Interrupted(@)]
           ELSE /\ alarm' = IF alarm > 0 THEN alarm - 1 ELSE 0
                /\ tstack' = aged
                /\ UNCHANGED <<alarmOwner, stray>>
    /\ UNCHANGED <<sigHandler, tcalls, exited, exits>>
    /\ UNCHANGED <<tcVars, retryVars, asyncVars>>

\* a variant of Cancel for a wrapper without finally: the alarm is set to 0
\* only when func returned
CancelOnReturnOnly ==
    /\ Depth > 0
    /\ tstack[Depth].pc = "finally"
    /\ alarm' = IF tstack[Depth].exn = "" THEN 0 ELSE alarm
    /\ alarmOwner' = IF tstack[Depth].exn = "" THEN 0 ELSE alarmOwner
    /\ tstack' = [tstack EXCEPT ![Depth].pc = "exit"]
    /\ UNCHANGED <<sigHandler, tcalls, exited, exits, stray>>
    /\ UNCHANGED <<tcVars, retryVars, asyncVars>>

\* finally: signal.alarm(0)
Cancel ==
    /\ Depth > 0
    /\ tstack[Depth].pc = "finally"
    /\ alarm' = 0
    /\ alarmOwner' = 0
    /\ tstack' = [tstack EXCEPT ![Depth].pc = "exit"]
    /\ UNCHANGED <<sigHandler, tcalls, exited, exits, stray>>
    /\ UNCHANGED <<tcVars, retryVars, asyncVars>>

\* return result, or the exception leaves wrapper; in an enclosing func the
\* exception is not caught and ends it
Exit ==
    /\ Depth > 0
    /\ tstack[Depth].pc = "exit"
    /\ LET fr == tstack[Depth]
           rest == SubSeq(tstack, 1, Depth - 1)
       IN  /\ exited' = ExitOf(fr, Depth)
           /\ IF Depth = 1
              THEN /\ tstack' = <<>>
                   /\ exits' = Append(exits, ExitOf(fr, 1).kind)
              ELSE /\ exits' = exits
                   /\ tstack' =
                        IF fr.exn = ""
                        THEN [rest EXCEPT ![Depth - 1].nested = TRUE]
                        ELSE [rest EXCEPT ![Depth - 1].nested = TRUE,
                                          ![Depth - 1].exn = fr.exn,
                                          ![Depth - 1].done = "raised",
                                          ![Depth - 1].doneAt = rest[Depth - 1].elapsed,
                                          ![Depth - 1].pc = "finally"]
    /\ UNCHANGED <<alarm, alarmOwner, sigHandler, tcalls, stray>>
    /\ UNCHANGED <<tcVars, retryVars, asyncVars>>

NextTimeout ==
    \/ CallTimeout
    \/ NestedCall
    \/ InstallHandler
    \/ Arm
    \/ CalleeReturn
    \/ CalleeRaise
    \/ Tick
    \/ Cancel
    \/ Exit

-----------------------------------------------------------------------------
(* retry(tries, delay, backoff) and the f_retry it produces.               *)
(* tries is given in halves (3 stands for 1.5), so that math.floor has     *)
(* something to round; delay and backoff are whole numbers.                *)

\* math.floor of h/2
Floor(h) == h \div 2

RetryArguments ==
    [tries : (-3)..(2 * MaxTries + 1), delay : (-1)..2, backoff : 0..3]

\* what f returns to f_retry: True, False, or a value that is neither
ReturnedToRetry == {"True", "False", "1"}

\* a variant of the check that lets a backoff of 1 pass
ValidateRetryBackoffOne(t, d, b) ==
    IF b < 1 THEN "backoff must be greater than 1"
    ELSE IF Floor(t) < 0 THEN "tries must be 0 or greater"
    ELSE IF d <= 0 THEN "delay must be greater than 0"
    ELSE "ok"

\* the check of the arguments: the ValueError raised, or "ok"
ValidateRetry(t, d, b) ==
    IF b <= 1 THEN "backoff must be greater than 1"
    ELSE IF Floor(t) < 0 THEN "tries must be 0 or greater"
    ELSE IF d <= 0 THEN "delay must be greater than 0"
    ELSE "ok"

\* no retry decoration exists
IdleRetry ==
    /\ given = [tries |-> 0, delay |-> 0, backoff |-> 0]
    /\ tries = 0
    /\ rpc = "off"
    /\ mtries = 0
    /\ mdelay = 0
    /\ rv = ""
    /\ rvs = <<>>
    /\ waits = <<>>
    /\ retried = ""

InitRetry ==
    /\ given \in RetryArguments
    /\ tries = 0
    /\ rpc = "deciding"
    /\ mtries = 0
    /\ mdelay = 0
    /\ rv = ""
    /\ rvs = <<>>
    /\ waits = <<>>
    /\ retried = ""
    /\ IdleTypeCheck
    /\ IdleAsync
    /\ IdleTimeout

\* retry(tries, delay, backoff): ValueError, or the decorator applied to f
Decorate ==
    /\ rpc = "deciding"
    /\ LET v == ValidateRetry(given.tries, given.delay, given.backoff)
       IN  IF v = "ok"
           THEN /\ tries' = Floor(given.tries)
                /\ rpc' = "decorated"
                /\ retried' = retried
           ELSE /\ retried' = "ValueError"
                /\ rpc' = "refused"
                /\ tries' = tries
    /\ UNCHANGED <<given, mtries, mdelay, rv, rvs, waits>>
    /\ UNCHANGED <<tcVars, asyncVars, timeoutVars>>

\* f_retry is called: mtries, mdelay = tries, delay
CallRetry ==
    /\ rpc = "decorated"
    /\ mtries' = tries
    /\ mdelay' = given.delay
    /\ rpc' = "attempt"
    /\ UNCHANGED <<given, tries, rv, rvs, waits, retried>>
    /\ UNCHANGED <<tcVars, asyncVars, timeoutVars>>

\* rv = f(*args, **kwargs): the first attempt and every "try again"
Attempt ==
    /\ rpc = "attempt"
    /\ \/ \E r \in ReturnedToRetry :
             /\ rv' = r
             /\ rvs' = Append(rvs, r)
             /\ rpc' = "test"
             /\ retried' = retried
       \/ \* f raises: nothing in f_retry catches it
          /\ rvs' = Append(rvs, "raised")
          /\ rpc' = "returned"
          /\ retried' = "exception of f"
          /\ rv' = rv
    /\ UNCHANGED <<given, tries, mtries, mdelay, waits>>
    /\ UNCHANGED <<tcVars, asyncVars, timeoutVars>>

\* a variant of the loop test that gives up one attempt early
LoopTestStopsEarly ==
    /\ rpc = "test"
    /\ IF mtries > 1
       THEN IF rv = "True"
            THEN /\ retried' = "True"
                 /\ rpc' = "returned"
            ELSE /\ rpc' = "sleep"
                 /\ retried' = retried
       ELSE /\ retried' = "False"
            /\ rpc' = "returned"
    /\ UNCHANGED <<given, tries, mtries, mdelay, rv, rvs, waits>>
    /\ UNCHANGED <<tcVars, asyncVars, timeoutVars>>

\* while mtries > 0: if rv is True: return True ... return False
LoopTest ==
    /\ rpc = "test"
    /\ IF mtries > 0
       THEN IF rv = "True"
            THEN /\ retried' = "True"
                 /\ rpc' = "returned"
            ELSE /\ rpc' = "sleep"
                 /\ retried' = retried
       ELSE /\ retried' = "False"
            /\ rpc' = "returned"
    /\ UNCHANGED <<given, tries, mtries, mdelay, rv, rvs, waits>>
    /\ UNCHANGED <<tcVars, asyncVars, timeoutVars>>

\* a variant of Sleep whose delay grows by addition
SleepAdditive ==
    /\ rpc = "sleep"
    /\ mtries' = mtries - 1
    /\ waits' = Append(waits, mdelay)
    /\ mdelay' = mdelay + given.backoff
    /\ rpc' = "attempt"
    /\ UNCHANGED <<given, tries, rv, rvs, retried>>
    /\ UNCHANGED <<tcVars, asyncVars, timeoutVars>>

\* mtries -= 1; time.sleep(mdelay); mdelay *= backoff
Sleep ==
    /\ rpc = "sleep"
    /\ mtries' = mtries - 1
    /\ waits' = Append(waits, mdelay)
    /\ mdelay' = mdelay * given.backoff
    /\ rpc' = "attempt"
    /\ UNCHANGED <<given, tries, rv, rvs, retried>>
    /\ UNCHANGED <<tcVars, asyncVars, timeoutVars>>

NextRetry ==
    \/ Decorate
    \/ CallRetry
    \/ Attempt
    \/ LoopTest
    \/ Sleep

SpecRetry == InitRetry /\ [][NextRetry]_vars

\* f_retry runs on the calling thread: every invocation of f terminates and
\* every time.sleep ends, so a step that can be taken is taken
SpecRetryFair == SpecRetry /\ WF_vars(NextRetry)

-----------------------------------------------------------------------------
InitTypeCheck ==
    /\ DecoratedTypeCheck
    /\ IdleRetry
    /\ IdleAsync
    /\ IdleTimeout

NextTypeCheck ==
    \/ Call
    \/ Bind
    \/ CheckParameter
    \/ Invoke
    \/ CheckReturn
    \/ Return
    \/ Reraise

SpecTypeCheck == InitTypeCheck /\ [][NextTypeCheck]_vars

\* asynchronous(func): self.func and self.threaded are set, self.queue is not
InitAsync ==
    /\ IdleAsync
    /\ IdleTypeCheck
    /\ IdleRetry
    /\ IdleTimeout

SpecAsync == InitAsync /\ [][NextAsync]_vars

InitTimeout ==
    /\ IdleTimeout
    /\ IdleTypeCheck
    /\ IdleRetry
    /\ IdleAsync

SpecTimeout == InitTimeout /\ [][NextTimeout]_vars

-----------------------------------------------------------------------------
(* What the claims speak of, stated without the operators of the wrapper.  *)

Supplied(name) == name \in DOMAIN args

\* the parameters the loop of wrapper checks: supplied, and not self or cls
Checked == {k \in 1..Len(sig.parameters) :
               /\ Supplied(sig.parameters[k].name)
               /\ sig.parameters[k].name \notin {"self", "cls"}}

\* the call matches the signature
CallBinds ==
    /\ ~extra
    /\ \A k \in 1..Len(sig.parameters) :
          sig.parameters[k].hasDefault \/ Supplied(sig.parameters[k].name)

\* T is the first class named s in the chain
FirstInChain(chain, s, T) ==
    \E k \in 1..Len(chain) :
        /\ chain[k] = T
        /\ NameOf(T) = s
        /\ \A j \in 1..(k - 1) : NameOf(chain[j]) # s

HasSelf == \E k \in 1..Len(sig.parameters) : sig.parameters[k].name = "self"
HasCls == \E k \in 1..Len(sig.parameters) : sig.parameters[k].name = "cls"

\* the class a parameter annotation stands for in this call, as the wrapper
\* takes it: the class itself, or the class a string names in the chain of
\* type(self) or, failing a self, of type(cls)
ParameterDeclares(ann, T) ==
    \/ ann.kind = "type" /\ T = ann.t
    \/ ann.kind = "str" /\ HasSelf /\ Supplied("self")
         /\ FirstInChain(Mro(args["self"].type), ann.t, T)
    \/ ann.kind = "str" /\ ~HasSelf /\ HasCls /\ Supplied("cls")
         /\ FirstInChain(Mro(args["cls"].type), ann.t, T)

\* the same for a return annotation: the chain of cls is that of the class
ReturnDeclares(ann, T) ==
    \/ ann.kind = "type" /\ T = ann.t
    \/ ann.kind = "str" /\ HasSelf /\ Supplied("self")
         /\ FirstInChain(Mro(args["self"].type), ann.t, T)
    \/ ann.kind = "str" /\ ~HasSelf /\ HasCls /\ Supplied("cls")
         /\ FirstInChain(Mro(args["cls"].id), ann.t, T)

SubtypeOf(c, T) == \E k \in 1..Len(Mro(c)) : Mro(c)[k] = T

\* the k-th parameter's argument has the declared type or a subtype of it
ParameterPasses(k) ==
    \E T \in Classes :
        /\ ParameterDeclares(sig.parameters[k].annotation, T)
        /\ SubtypeOf(args[sig.parameters[k].name].type, T)

\* the k-th parameter's argument has a declared type and is no instance of it
ParameterMismatches(k) ==
    \E T \in Classes :
        /\ ParameterDeclares(sig.parameters[k].annotation, T)
        /\ ~SubtypeOf(args[sig.parameters[k].name].type, T)

\* the first checked parameter that does not pass
FirstNotPassing ==
    CHOOSE k \in Checked :
        /\ ~ParameterPasses(k)
        /\ \A j \in Checked : j < k => ParameterPasses(j)

ValuePasses(v, ann) ==
    \/ ann.kind = "empty"
    \/ \E T \in Classes : ReturnDeclares(ann, T) /\ SubtypeOf(v.type, T)

\* slot k (from 0) of a list annotation has an element that passes
SlotPasses(k) ==
    /\ result.type = "tuple"
    /\ k < Len(result.items)
    /\ ValuePasses(result.items[k + 1], sig.return_annotation.l[k + 1])

Slots == 0..(Len(sig.return_annotation.l) - 1)

FirstFailingSlot ==
    CHOOSE k \in Slots : ~SlotPasses(k) /\ \A j \in Slots : j < k => SlotPasses(j)

\* the returned value satisfies the return contract
ReturnSatisfied ==
    IF sig.return_annotation.kind = "list"
    THEN \A k \in Slots : SlotPasses(k)
    ELSE ValuePasses(result, sig.return_annotation)

\* f was invoked and returned (it did not raise)
CalleeReturned == invoked > 0 /\ exc.origin # "callee"

RaisedTypeError(origin, name) ==
    /\ outcome.kind = "raise"
    /\ outcome.exc.type = "TypeError"
    /\ outcome.exc.origin = origin
    /\ outcome.exc.arg = name

-----------------------------------------------------------------------------
(* C1, as claimed: in a call that binds, of a callable whose checked       *)
(* parameters are all declared with a class, f is invoked only after every *)
(* checked argument passed, and for every argument whose runtime type is   *)
(* not the declared type nor a subtype, f is never invoked and a TypeError *)
(* naming that parameter is raised.                                        *)
C1_AsClaimed ==
    (/\ pc = "done"
     /\ CallBinds
     /\ \A k \in Checked : sig.parameters[k].annotation.kind = "type")
    => /\ invoked > 0 => \A k \in Checked : ParameterPasses(k)
       /\ \A k \in Checked :
             ParameterMismatches(k)
             => /\ invoked = 0
                /\ RaisedTypeError("parameter", sig.parameters[k].name)

(* C1, amended: f is invoked only after binding succeeded and every        *)
(* checked argument passed its declared type; when the call binds and some *)
(* checked argument's runtime type is not the declared type nor a subtype, *)
(* f is never invoked and a TypeError is raised that names the first       *)
(* checked parameter, in signature order, whose check fails.               *)
C1_FirstFailureNamed ==
    /\ invoked > 0 => CallBinds /\ \A k \in Checked : ParameterPasses(k)
    /\ (pc = "done" /\ CallBinds /\ \E k \in Checked : ParameterMismatches(k))
       => /\ invoked = 0
          /\ RaisedTypeError("parameter", sig.parameters[FirstNotPassing].name)

\* two arguments mismatch, and the TypeError names the first of them
C1_Witness ==
    /\ pc = "done"
    /\ CallBinds
    /\ Cardinality({k \in Checked : ParameterMismatches(k)}) = 2
    /\ invoked = 0
    /\ RaisedTypeError("parameter", sig.parameters[FirstNotPassing].name)

(* C2, as claimed: an absent contract always succeeds: no call fails on a  *)
(* parameter that has no annotation, and none fails on the return value of *)
(* a callable that has no return annotation.                               *)
C2_AbsentContractSucceeds ==
    (pc = "done" /\ outcome.kind = "raise")
    => /\ outcome.exc.origin = "parameter"
          => Parameter(sig.parameters, outcome.exc.arg).annotation.kind # "empty"
       /\ outcome.exc.origin = "return" => sig.return_annotation.kind # "empty"

(* C3: a call that binds, every checked parameter declared with a type and *)
(* given an instance of it: f is invoked exactly once, with the call's     *)
(* arguments, and when f returns a value that satisfies the return         *)
(* contract the caller gets that value.                                    *)
C3_InvokedOnceValueUnchanged ==
    /\ invoked <= 1
    /\ (pc = "done" /\ CallBinds /\ \A k \in Checked : ParameterPasses(k))
       => /\ invoked = 1
          /\ invokedWith = args
          /\ (CalleeReturned /\ ReturnSatisfied)
             => outcome = [kind |-> "return", value |-> result, exc |-> NoExc]

\* such a call, of a method with two typed parameters and a return contract
C3_Witness ==
    /\ pc = "done"
    /\ CallBinds
    /\ Cardinality(Checked) = 2
    /\ \A k \in Checked : ParameterPasses(k)
    /\ sig.return_annotation.kind = "type"
    /\ CalleeReturned
    /\ ReturnSatisfied
    /\ outcome.kind = "return"
    /\ outcome.value = result
    /\ result # NoValue

\* the annotation the failure is about: a parameter's, or the single return
\* annotation
BlamedAnnotation ==
    IF outcome.exc.origin = "parameter"
    THEN Parameter(sig.parameters, outcome.exc.arg).annotation
    ELSE sig.return_annotation

(* C4, as claimed: in a method with self, a string annotation naming a     *)
(* class of the chain of type(self) stands for the first such class, and a *)
(* call that fails on a string annotation naming no class of the chain     *)
(* fails with StringLiteralAsAnnotationTypeException.                      *)
C4_UnresolvedStringRaisesForwardReference ==
    /\ (/\ pc = "done"
        /\ HasSelf
        /\ CallBinds
        /\ \A k \in Checked : /\ sig.parameters[k].annotation.kind = "str"
                               /\ ParameterPasses(k))
       => invoked = 1
    /\ (/\ pc = "done"
        /\ HasSelf
        /\ outcome.kind = "raise"
        /\ outcome.exc.origin \in {"parameter", "return"}
        /\ BlamedAnnotation.kind = "str"
        /\ \A T \in Classes :
              ~FirstInChain(Mro(args["self"].type), BlamedAnnotation.t, T))
       => outcome.exc.type = StringLiteralType

\* what the caller gets is the value f returned
ReturnedUnchanged == outcome = [kind |-> "return", value |-> result, exc |-> NoExc]

(* C5, as claimed: with a list return annotation, the call returns the     *)
(* value unchanged iff every slot passes, and otherwise raises a TypeError *)
(* that names the (first) failing slot.                                    *)
C5_AsClaimed ==
    (pc = "done" /\ sig.return_annotation.kind = "list" /\ CalleeReturned)
    => /\ ReturnedUnchanged <=> \A k \in Slots : SlotPasses(k)
       /\ (\E k \in Slots : ~SlotPasses(k))
          => RaisedTypeError("return", SlotName(FirstFailingSlot))

(* What wrapper does with a list return annotation: the slots are          *)
(* validated in order, element i against the i-th declared type; the call  *)
(* returns the value unchanged iff every declared slot has an element that *)
(* passes; the first failing slot i raises a TypeError naming slot i,      *)
(* except that a returned tuple with no element i raises IndexError.       *)
C5_SlotsValidatedInOrder ==
    (pc = "done" /\ sig.return_annotation.kind = "list" /\ CalleeReturned)
    => /\ ReturnedUnchanged <=> \A k \in Slots : SlotPasses(k)
       /\ (\E k \in Slots : ~SlotPasses(k))
          => IF result.type = "tuple" /\ FirstFailingSlot >= Len(result.items)
             THEN outcome.kind = "raise" /\ outcome.exc.type = "IndexError"
             ELSE RaisedTypeError("return", SlotName(FirstFailingSlot))

\* a returned pair whose element 0 passes and whose element 1 does not
C5_Witness ==
    /\ pc = "done"
    /\ Len(sig.return_annotation.l) = 2
    /\ CalleeReturned
    /\ result.type = "tuple"
    /\ Len(result.items) = 2
    /\ SlotPasses(0)
    /\ ~SlotPasses(1)
    /\ RaisedTypeError("return", "return_value[1]")

(* C6: an exception f raises reaches the caller with the same type and the *)
(* same value, a TypeError and a StringLiteralAsAnnotationTypeException    *)
(* included, and no return validation runs after it.                       *)
C6_CalleeExceptionUnchanged ==
    exc.origin = "callee"
    => /\ pc \in {"handler", "done"}
       /\ result = NoValue
       /\ pc = "done"
          => /\ outcome.kind = "raise"
             /\ outcome.exc.type = exc.type
             /\ outcome.exc.origin = exc.origin
             /\ outcome.exc.arg = exc.arg

\* a TypeError of f has reached the caller, its traceback cut
C6_Witness ==
    /\ pc = "done"
    /\ exc.origin = "callee"
    /\ exc.type = "TypeError"
    /\ outcome.exc.type = "TypeError"
    /\ outcome.exc.origin = "callee"
    /\ outcome.exc.tb # exc.tb

-----------------------------------------------------------------------------
(* retry.                                                                  *)

\* some invocation of f returned True
SomeTrue == \E k \in 1..Len(rvs) : rvs[k] = "True"

\* f returned True for the first time on its k-th invocation
FirstTrueAt(k) ==
    /\ k \in 1..Len(rvs)
    /\ rvs[k] = "True"
    /\ \A j \in 1..(k - 1) : rvs[j] # "True"

RECURSIVE Power(_, _)
Power(b, e) == IF e = 0 THEN 1 ELSE b * Power(b, e - 1)

(* C7, as claimed: the call returns True as soon as an invocation of f     *)
(* returns True, with no invocation after it, whichever invocation that    *)
(* is; it returns False only when no invocation returned True.             *)
C7_TrueAsSoonAsAnyInvocationIsTrue ==
    /\ \A k \in 1..(Len(rvs) - 1) : rvs[k] # "True"
    /\ (rpc = "returned" /\ retried \in {"True", "False"})
       => (retried = "True" <=> SomeTrue)

(* C8: when f first returns True on its k-th invocation and k <= n, the    *)
(* call returns True after exactly k invocations and k-1 waits, the j-th   *)
(* of d*b^(j-1); with n = 0 and f returning False, f is invoked once,      *)
(* nothing is waited and the call returns False.                           *)
C8_InvocationsAndWaits ==
    /\ \A k \in 1..tries :
          FirstTrueAt(k)
          => /\ Len(rvs) = k
             /\ rpc \in {"test", "returned"}
             /\ Len(waits) = k - 1
             /\ \A j \in 1..(k - 1) :
                   waits[j] = given.delay * Power(given.backoff, j - 1)
             /\ rpc = "returned" => retried = "True"
    /\ (rpc = "returned" /\ tries = 0 /\ rvs = <<"False">>)
       => waits = <<>> /\ retried = "False"
    /\ (rpc \in {"attempt", "test", "sleep", "returned"} /\ tries = 0)
       => Len(rvs) <= 1 /\ waits = <<>>

\* retry(3, 1, 2) around False, False, True: three invocations, waits 1 and 2
C8_Witness ==
    /\ rpc = "returned"
    /\ tries = 3
    /\ given.delay = 1
    /\ given.backoff = 2
    /\ rvs = <<"False", "False", "True">>
    /\ waits = <<1, 2>>
    /\ retried = "True"

\* the arguments retry refuses
InvalidArguments ==
    \/ given.backoff <= 1
    \/ given.tries < 0
    \/ given.delay <= 0

(* C9: retry raises ValueError at decoration exactly when backoff <= 1,    *)
(* floor(tries) < 0 or delay <= 0; then no decorator exists and f is never *)
(* invoked; with valid arguments no ValueError is raised, at decoration or *)
(* at a call.                                                              *)
C9_InvalidArgumentsRefusedAtDecoration ==
    /\ rpc \notin {"off", "deciding"}
       => ((rpc = "refused" /\ retried = "ValueError") <=> InvalidArguments)
    /\ InvalidArguments => rvs = <<>> /\ rpc \in {"deciding", "refused"}
    /\ ~InvalidArguments => retried # "ValueError"

\* retry(-0.5, 1, 2) was refused
C9_Witness ==
    /\ rpc = "refused"
    /\ retried = "ValueError"
    /\ given = [tries |-> -1, delay |-> 1, backoff |-> 2]
    /\ rvs = <<>>

\* arguments have been bound for the call
Bound == pc \in {"validating", "validatingReturn", "returning", "handler", "done"}
            /\ exc.origin # "bind"

(* C14: with cls as the governing argument (no self), a string annotation  *)
(* is resolved for a parameter as it is for the return value: checking a   *)
(* supplied value against the string as a parameter annotation and as a    *)
(* return annotation gives the same verdict, and a call whose string       *)
(* annotated arguments are instances of the class the string names in the  *)
(* chain of the class passed as cls invokes f.                             *)
C14_ClsResolutionAgrees ==
    (Bound /\ ~HasSelf /\ HasCls)
    => /\ \A k \in Checked :
             sig.parameters[k].annotation.kind = "str"
             => check_parameter_types(sig.parameters[k].name,
                                      args[sig.parameters[k].name],
                                      sig.parameters, bound_arguments)
                = check_return_type(args[sig.parameters[k].name],
                                    sig.parameters[k].annotation,
                                    sig.parameters, bound_arguments)
       /\ (/\ pc = "done"
           /\ \A k \in Checked :
                 /\ sig.parameters[k].annotation.kind = "str"
                 /\ \E T \in Classes :
                       /\ FirstInChain(Mro(args["cls"].id),
                                       sig.parameters[k].annotation.t, T)
                       /\ SubtypeOf(args[sig.parameters[k].name].type, T))
          => invoked = 1

(* C15: with neither self nor cls, a call that supplies a parameter        *)
(* annotated with a string fails before f is invoked, and a failure on a   *)
(* string parameter annotation is a StringLiteralAsAnnotationTypeException *)
(* for that parameter; when f has returned and the return annotation is a  *)
(* string, the call fails with StringLiteralAsAnnotationTypeException for  *)
(* return_value; neither is a TypeError.                                   *)
C15_StringOutsideMethodRaisesForwardReference ==
    (pc = "done" /\ ~HasSelf /\ ~HasCls /\ CallBinds)
    => /\ (\E k \in Checked : sig.parameters[k].annotation.kind = "str")
          => invoked = 0 /\ outcome.kind = "raise"
       /\ (/\ outcome.kind = "raise"
           /\ outcome.exc.origin = "parameter"
           /\ BlamedAnnotation.kind = "str")
          => outcome.exc.type = StringLiteralType
       /\ (CalleeReturned /\ sig.return_annotation.kind = "str")
          => /\ outcome.kind = "raise"
             /\ outcome.exc.type = StringLiteralType
             /\ outcome.exc.arg = "return_value"

\* the parameters the caller left out
Omitted == {k \in 1..Len(sig.parameters) : ~Supplied(sig.parameters[k].name)}

\* the k-th parameter's default is no instance of the class its annotation
\* declares
DefaultMismatches(k) ==
    /\ sig.parameters[k].hasDefault
    /\ \E T \in Classes :
          /\ ParameterDeclares(sig.parameters[k].annotation, T)
          /\ ~SubtypeOf(sig.parameters[k].default.type, T)

(* C20: the arguments validated are exactly those supplied: a parameter    *)
(* left out and filled by its default is not among the bound arguments, no *)
(* failure is about it, and a call that binds and whose supplied arguments *)
(* all pass invokes f, whatever the type of the default.                   *)
C20_DefaultsNeverChecked ==
    Bound
    => /\ {bound_arguments[j].name : j \in 1..Len(bound_arguments)} = DOMAIN args
       /\ (outcome.kind = "raise" /\ outcome.exc.origin = "parameter")
          => Supplied(outcome.exc.arg)
       /\ (pc = "done" /\ \A k \in Checked : ParameterPasses(k))
          => invoked = 1

\* a call that relies on a default of the wrong type, and f was invoked and
\* its value returned
C20_Witness ==
    /\ pc = "done"
    /\ \E k \in Omitted : DefaultMismatches(k)
    /\ Checked # {}
    /\ \A k \in Checked : ParameterPasses(k)
    /\ invoked = 1
    /\ outcome.kind = "return"

-----------------------------------------------------------------------------
(* retry: termination.                                                     *)

\* f_retry is running
InRetryCall == rpc \in {"attempt", "test", "sleep"}

\* the counts of a call of f_retry: at most tries+1 invocations, at most
\* tries waits, the counter one lower per wait and never below 0, and False
\* after exactly tries+1 invocations when none returned True
RetryWithinBudget ==
    (InRetryCall \/ rpc = "returned")
    => /\ Len(rvs) <= tries + 1
       /\ Len(waits) <= tries
       /\ mtries = tries - Len(waits)
       /\ mtries >= 0
       /\ (rpc = "returned" /\ ~SomeTrue /\ rvs[Len(rvs)] # "raised")
          => /\ retried = "False"
             /\ Len(rvs) = tries + 1

(* C18: whatever f returns, a call of f_retry terminates, after at most    *)
(* n+1 invocations and at most n waits; the remaining-attempts counter is  *)
(* one lower after each wait and never below 0; when no invocation         *)
(* returned True the call returns False after exactly n+1 invocations.     *)
C18_TerminatesWithinBudget ==
    /\ []RetryWithinBudget
    /\ InRetryCall ~> (rpc = "returned")

\* retry(3, 1, 2) around a callable that never returns True: four
\* invocations, three waits, the counter at 0, False
C18_Witness ==
    /\ rpc = "returned"
    /\ tries = MaxTries
    /\ Len(rvs) = MaxTries + 1
    /\ ~SomeTrue
    /\ rvs[Len(rvs)] # "raised"
    /\ Len(waits) = MaxTries
    /\ mtries = 0
    /\ retried = "False"

-----------------------------------------------------------------------------
(* asynchronous.                                                           *)

(* C10, as claimed: get_result() goes past its first test only when the    *)
(* handle's thread has finished; every value it returns on a handle is     *)
(* what the invocation launched by that handle's start() returned, so all  *)
(* its returns on one handle agree; and the handle's queue is read at most *)
(* once.                                                                   *)
C10_ResultIsThisHandlesValue ==
    /\ \A c \in Callers :
          caller[c].pc # "idle" => ~IsAlive(handle[caller[c].h].thread)
    /\ \A h \in 1..started :
          /\ returned[h] \subseteq {thread[handle[h].thread].ret}
          /\ reads[h] <= 1

\* thread t can still put something on queue q: it has looked q up and func
\* is running, or it is about to look self.queue up and self.queue is q
CanStillPut(t, q) ==
    \/ thread[t].pc = "run" /\ thread[t].q = q
    \/ thread[t].pc = "load" /\ queue = q

\* caller c waits in queue.get() on a queue that is empty and that no thread
\* will put anything on (a thread started later looks up a later queue)
BlockedForever(c) ==
    /\ caller[c].pc = "get"
    /\ queues[handle[caller[c].h].queue] = <<>>
    /\ \A t \in 1..started : ~CanStillPut(t, handle[caller[c].h].queue)

(* C11: get_result() called by several threads on one handle whose thread  *)
(* has finished and has put its value on the handle's queue: all callers   *)
(* return the same value, the queue of the handle is read at most once,    *)
(* and no caller blocks forever on the empty queue.                        *)
C11_ConcurrentGetResultSafe ==
    \A h \in 1..started :
       (/\ thread[handle[h].thread].pc = "finished"
        /\ thread[handle[h].thread].q = handle[h].queue)
       => /\ Cardinality(returned[h]) <= 1
          /\ reads[h] <= 1
          /\ \A c \in Callers : caller[c].h = h => ~BlockedForever(c)

(* C16: each handle owns its channel: the value of the invocation launched *)
(* by a handle's start() is, once func has returned, on that handle's own  *)
(* queue until the handle reads it, whatever other start() calls took      *)
(* place, and a value read through a handle is that invocation's value: no *)
(* result is lost and none is handed to another handle.                    *)
C16_EachHandleOwnsItsChannel ==
    \A h \in 1..started :
       /\ (thread[handle[h].thread].pc = "finished" /\ reads[h] = 0)
          => queues[handle[h].queue] = <<thread[handle[h].thread].ret>>
       /\ \A c \in Callers :
             (caller[c].h = h /\ caller[c].pc = "store")
             => caller[c].got = thread[handle[h].thread].ret

(* C17: once is_done() is true on a handle, a get_result() that went past  *)
(* that test terminates, by a return or a raise: it never waits forever on *)
(* the queue, also when func ended the thread by raising.                  *)
C17_GetResultTerminatesOnceDone ==
    \A c \in Callers :
       (caller[c].pc # "idle" /\ is_done(caller[c].h)) => ~BlockedForever(c)

-----------------------------------------------------------------------------
(* timeout.                                                                *)

(* C12: once a timeout-wrapped call has exited, by a return of func, by    *)
(* the TimeoutError of the deadline or by an exception of func, no         *)
(* deadline it set is pending: a pending alarm belongs to a call still in  *)
(* progress, none is pending while no wrapped call runs, and the alarm     *)
(* never goes off outside a wrapped call.                                  *)
C12_NoDeadlineSurvivesItsCall ==
    /\ ~stray
    /\ tstack = <<>> => alarm = 0
    /\ alarm > 0 => /\ alarmOwner \in 1..Depth
                    /\ tstack[alarmOwner].armed
                    /\ tstack[alarmOwner].pc \in {"try", "finally"}

\* a call that ended by TimeoutError, then a call that ran a second and more
\* and returned
C12_Witness ==
    /\ exits = <<"TimeoutError", "return">>
    /\ exited.depth = 1
    /\ exited.elapsed >= 1
    /\ tstack = <<>>
    /\ alarm = 0

(* C13, as claimed: a timeout-wrapped call (made outside any other, its    *)
(* func making none) whose func returns before the deadline returns func's *)
(* value and raises no TimeoutError; a call whose func is still running    *)
(* when the deadline expires is aborted and raises TimeoutError.           *)
C13_ReturnsInTimeOrTimesOut ==
    /\ (exited.depth = 1 /\ ~exited.nested /\ exited.done = "returned"
          /\ exited.doneAt < exited.seconds)
       => exited.kind = "return"
    /\ (exited.depth = 1 /\ ~exited.nested /\ exited.armed /\ exited.done = "")
       => exited.kind = "TimeoutError"
    /\ (Depth = 1 /\ ~tstack[1].nested /\ tstack[1].pc = "try"
          /\ tstack[1].seconds >= 1)
       => tstack[1].elapsed < tstack[1].seconds

(* C19: the deadline is one slot of the process: a pending deadline is     *)
(* the one of the call that set the alarm last, counted from that call's   *)
(* signal.alarm(seconds), whatever was pending before; once a wrapped call *)
(* made inside func has exited, nothing is pending for the enclosing call, *)
(* whose func is then not aborted however long it runs.                    *)
C19_SingleGlobalDeadline ==
    /\ alarm > 0
       => /\ alarmOwner \in 1..Depth
          /\ alarm = tstack[alarmOwner].seconds - tstack[alarmOwner].elapsed
          /\ \A d \in (alarmOwner + 1)..Depth : ~tstack[d].armed
    /\ \A d \in 1..Depth :
          (d = Depth /\ tstack[d].nested) => alarm = 0
    /\ (exited.depth > 0 /\ exited.nested /\ exited.done = "returned")
       => exited.kind = "return"

\* an enclosing call with a deadline of one second whose func made a wrapped
\* call, ran for more than one second after it and returned
C19_Witness ==
    /\ exited.depth = 1
    /\ exited.nested
    /\ exited.seconds = 1
    /\ exited.elapsed > 1
    /\ exited.done = "returned"
    /\ exited.kind = "return"
    /\ ~exited.fired

=============================================================================
